---- MODULE Spec2Model ----
(***************************************************************************)
(* dnsperf.py: a sequential DNS benchmark.  The script runs a measurement  *)
(* loop over resolver x domain x trial, then computes overall statistics,  *)
(* prints a per-domain breakdown, ranks the resolvers and prints a final   *)
(* verdict.                                                                *)
(*                                                                         *)
(* Latencies are floats in the script; here a latency is a whole number of *)
(* time units in 0..MaxLatency.  statistics.mean and statistics.stdev work *)
(* on exact fractions, so an average is kept as a reduced fraction and a   *)
(* standard deviation as the square root of a reduced fraction.            *)
(***************************************************************************)
EXTENDS Integers, Sequences, FiniteSets, TLC

\* ---- bounds ------------------------------------------------------------
NumResolvers == 2
NumDomains == 2
num_trials == 2
MaxLatency == 2

resolvers == 1..NumResolvers
domains == 1..NumDomains

\* ---- samples -----------------------------------------------------------
\* A sample is None (failed query) or an elapsed time.
None == [none |-> TRUE, ms |-> 0]
Elapsed(x) == [none |-> FALSE, ms |-> x]
Samples == {None} \cup {Elapsed(x) : x \in 0..MaxLatency}

\* ---- floats ------------------------------------------------------------
\* k = "rat": the number n/d; k = "sqrt": the square root of n/d;
\* k = "nan", "inf": float('nan'), float('inf').
NaN == [k |-> "nan", n |-> 0, d |-> 1]
Inf == [k |-> "inf", n |-> 0, d |-> 1]
\* The outcome of an expression that raised an exception instead of yielding a value.
Raised == [k |-> "raise", n |-> 0, d |-> 1]

RECURSIVE GCD(_, _)
GCD(a, b) == IF b = 0 THEN a ELSE GCD(b, a % b)

Rat(n, d) == LET g == GCD(n, d) IN [k |-> "rat", n |-> n \div g, d |-> d \div g]
Sqrt(n, d) == LET g == GCD(n, d) IN [k |-> "sqrt", n |-> n \div g, d |-> d \div g]

\* Python float comparison: every comparison with nan is false.
FloatEq(a, b) == a.k # "nan" /\ b.k # "nan" /\ a = b
FloatNe(a, b) == ~FloatEq(a, b)
FloatLt(a, b) ==
    /\ a.k = "rat"
    /\ \/ b.k = "inf"
       \/ b.k = "rat" /\ a.n * b.d < b.n * a.d

\* ---- statistics --------------------------------------------------------
RECURSIVE SumSeq(_)
SumSeq(s) == IF s = <<>> THEN 0 ELSE Head(s) + SumSeq(Tail(s))

RECURSIVE SumSq(_)
SumSq(s) == IF s = <<>> THEN 0 ELSE Head(s) * Head(s) + SumSq(Tail(s))

RECURSIVE MinSeq(_)
MinSeq(s) ==
    IF Len(s) = 1 THEN Head(s)
    ELSE LET m == MinSeq(Tail(s)) IN IF m < Head(s) THEN m ELSE Head(s)

RECURSIVE MaxSeq(_)
MaxSeq(s) ==
    IF Len(s) = 1 THEN Head(s)
    ELSE LET m == MaxSeq(Tail(s)) IN IF m > Head(s) THEN m ELSE Head(s)

\* statistics.mean(times), min(times), max(times): each raises on an empty list
\* (StatisticsError, ValueError).
Mean(s) == IF s = <<>> THEN Raised ELSE Rat(SumSeq(s), Len(s))
Min(s) == IF s = <<>> THEN Raised ELSE Rat(MinSeq(s), 1)
Max(s) == IF s = <<>> THEN Raised ELSE Rat(MaxSeq(s), 1)
\* statistics.stdev(times) if len(times) > 1 else 0.0
Stdev(s) ==
    IF Len(s) > 1
    THEN Sqrt(Len(s) * SumSq(s) - SumSeq(s) * SumSeq(s), Len(s) * (Len(s) - 1))
    ELSE Sqrt(0, 1)

\* The filter of both statistics passes: t is not None and t > 0.
ValidGe(t) == ~t.none /\ t.ms >= 0
Valid(t) == ~t.none /\ t.ms > 0

RECURSIVE Filter(_)
Filter(s) ==
    IF s = <<>> THEN <<>>
    ELSE IF Valid(Head(s)) THEN <<Head(s).ms>> \o Filter(Tail(s))
    ELSE Filter(Tail(s))

\* all_times of one resolver: its domains in order, each domain's samples in order.
RECURSIVE AllTimes(_, _, _)
AllTimes(tbl, r, d) ==
    IF d > NumDomains THEN <<>>
    ELSE Filter(tbl[r][d]) \o AllTimes(tbl, r, d + 1)

NoDataStats == [avg |-> NaN, min |-> NaN, max |-> NaN, std |-> NaN, count |-> 0]
UnguardedStats(times) ==
    [avg |-> Mean(times), min |-> Min(times), max |-> Max(times),
     std |-> Stdev(times), count |-> Len(times)]
ZeroStats(times) ==
    IF times # <<>> THEN UnguardedStats(times)
    ELSE [avg |-> Rat(0, 1), min |-> Rat(0, 1), max |-> Rat(0, 1),
          std |-> Sqrt(0, 1), count |-> 0]
StatsOf(times) ==
    IF times # <<>> THEN UnguardedStats(times) ELSE NoDataStats

\* ---- formatting --------------------------------------------------------
\* A printed table cell: "N/A", "nan", "inf", or a number with two decimals,
\* kept as its value in hundredths.
Cell(txt, h) == [txt |-> txt, h |-> h]
NA == Cell("N/A", 0)

\* round(100 * n / d), ties to even
RoundRat(n, d) ==
    LET q == (100 * n) \div d
        r == (100 * n) % d
    IN  IF 2 * r < d THEN q
        ELSE IF 2 * r > d THEN q + 1
        ELSE IF q % 2 = 0 THEN q ELSE q + 1

\* round(100 * sqrt(n / d)): the least h in lo..hi with 100 * sqrt(n/d) < h + 1/2
RECURSIVE RoundSqrt(_, _, _, _)
RoundSqrt(n, d, lo, hi) ==
    IF lo >= hi THEN lo
    ELSE LET mid == (lo + hi) \div 2
         IN  IF 40000 * n < (2 * mid + 1) * (2 * mid + 1) * d
             THEN RoundSqrt(n, d, lo, mid)
             ELSE RoundSqrt(n, d, mid + 1, hi)

\* f"{x:.2f}" and "{:10.2f}".format(x)
Format2f(x) ==
    CASE x.k = "nan" -> Cell("nan", 0)
      [] x.k = "inf" -> Cell("inf", 0)
      [] x.k = "rat" -> Cell("num", RoundRat(x.n, x.d))
      [] x.k = "sqrt" -> Cell("num", RoundSqrt(x.n, x.d, 0, 100 * MaxLatency))

FormatRow(st) ==
    [avg |-> Format2f(st.avg), min |-> Format2f(st.min),
     max |-> Format2f(st.max), std |-> Format2f(st.std)]
NARow == [avg |-> NA, min |-> NA, max |-> NA, std |-> NA]

\* ---- overall statistics (lines 75-101) ----------------------------------
OverallStats(tbl) == [r \in resolvers |-> StatsOf(AllTimes(tbl, r, 1))]

StatsRaised(st) ==
    \/ st.avg.k = "raise"
    \/ st.min.k = "raise"
    \/ st.max.k = "raise"
    \/ st.std.k = "raise"

\* ---- per-domain breakdown (lines 103-117) ------------------------------
DomainRow(samples) ==
    LET times == Filter(samples)
    IN  IF times # <<>> THEN FormatRow(UnguardedStats(times)) ELSE NARow

Breakdown(tbl) == [r \in resolvers |-> [d \in domains |-> DomainRow(tbl[r][d])]]

\* ---- ranking (lines 119-128) -------------------------------------------
RankKeyZero(st) ==
    IF st.count = 0 \/ FloatNe(st.avg, st.avg) THEN Rat(0, 1) ELSE st.avg
RankKey(st) ==
    IF st.count = 0 \/ FloatNe(st.avg, st.avg) THEN Inf ELSE st.avg

RankingStats(ostats) == [r \in DOMAIN ostats |-> RankKey(ostats[r])]

\* The items of a dict keyed by 1..n, in insertion order: (name, value) pairs.
Items(f) == [i \in DOMAIN f |-> <<i, f[i]>>]

\* Insert x into the sorted list s behind every item that is not greater than x.
RECURSIVE InsertFront(_, _)
InsertFront(x, s) ==
    IF s = <<>> THEN <<x>>
    ELSE IF ~FloatLt(Head(s)[2], x[2]) THEN <<x>> \o s
    ELSE <<Head(s)>> \o InsertFront(x, Tail(s))
RECURSIVE Insert(_, _)
Insert(x, s) ==
    IF s = <<>> THEN <<x>>
    ELSE IF FloatLt(x[2], Head(s)[2]) THEN <<x>> \o s
    ELSE <<Head(s)>> \o Insert(x, Tail(s))

\* sorted(items, key=lambda item: item[1]): a stable sort that compares keys with <.
RECURSIVE SortFrom(_, _, _)
SortFrom(items, i, acc) ==
    IF i > Len(items) THEN acc
    ELSE SortFrom(items, i + 1, Insert(items[i], acc))

Sorted(items) == SortFrom(items, 1, <<>>)

\* ---- final ranking table (lines 130-144) -------------------------------
RankingRow(st) ==
    IF FloatEq(st.avg, Inf) THEN NARow ELSE FormatRow(st)

RankingRows(sorted, ostats) ==
    [i \in DOMAIN sorted |->
        [rank |-> i, resolver |-> sorted[i][1], row |-> RankingRow(ostats[sorted[i][1]])]]

\* ---- final verdict (lines 146-152) -------------------------------------
NoVerdict == [kind |-> "no data", resolver |-> 0, avg |-> NA]
VerdictAny(sorted, ostats) ==
    IF sorted # <<>>
    THEN [kind |-> "fastest", resolver |-> sorted[1][1],
          avg |-> Format2f(ostats[sorted[1][1]].avg)]
    ELSE NoVerdict
FinalVerdict(sorted, ostats) ==
    IF sorted # <<>> /\ FloatNe(sorted[1][2], Inf)
    THEN [kind |-> "fastest", resolver |-> sorted[1][1],
          avg |-> Format2f(ostats[sorted[1][1]].avg)]
    ELSE NoVerdict

\* ---- the program -------------------------------------------------------
VARIABLES
    pc,                 \* the section of the script that runs next
    ri, di, trial,      \* the measurement loop's position
    results,            \* { resolver: { domain: [samples] } }
    queries,            \* the lookups issued so far: <<resolver, domain, trial, sample>>
    overall_stats,      \* { resolver: stats }
    overall_rows,       \* the overall table, as printed
    breakdown_rows,     \* the per-domain tables, as printed
    ranking_stats,      \* { resolver: ranking key }
    sorted_resolvers,   \* [(resolver, ranking key)], best first
    ranking_rows,       \* the final ranking table, as printed
    verdict             \* the final verdict line

vars == <<pc, ri, di, trial, results, queries, overall_stats, overall_rows,
          breakdown_rows, ranking_stats, sorted_resolvers, ranking_rows, verdict>>

report == <<overall_stats, overall_rows, breakdown_rows, ranking_stats,
            sorted_resolvers, ranking_rows, verdict>>

Init ==
    /\ pc = "measure"
    /\ ri = 1 /\ di = 1 /\ trial = 1
    /\ results = <<>>
    /\ queries = <<>>
    /\ overall_stats = <<>>
    /\ overall_rows = <<>>
    /\ breakdown_rows = <<>>
    /\ ranking_stats = <<>>
    /\ sorted_resolvers = <<>>
    /\ ranking_rows = <<>>
    /\ verdict = [kind |-> "none", resolver |-> 0, avg |-> NA]

\* d[k] = v on a dict
Assign(f, key, v) == [x \in DOMAIN f \cup {key} |-> IF x = key THEN v ELSE f[x]]

\* The loop headers passed on the way to a trial: results[resolver_name] = {} before
\* a resolver's first domain, results[resolver_name][domain] = [] before a domain's
\* first trial.
Entered(tbl, r, d, t) ==
    LET t1 == IF d = 1 /\ t = 1 THEN Assign(tbl, r, <<>>) ELSE tbl
    IN  IF t = 1 THEN Assign(t1, r, Assign(t1[r], d, <<>>)) ELSE t1

\* results[resolver_name][domain].append(elapsed) / .append(None)
OnSuccessFront(lst, elapsed) == <<Elapsed(elapsed)>> \o lst
OnSuccess(lst, elapsed) == Append(lst, Elapsed(elapsed))
OnFailureSkip(lst) == lst
OnFailure(lst) == Append(lst, None)

\* Where the three nested for loops go after trial t of domain d of resolver r.
Pos(p, r, d, t) == [pc |-> p, ri |-> r, di |-> d, trial |-> t]
NextPosShort(r, d, t) ==
    IF t < num_trials - 1 THEN Pos("measure", r, d, t + 1)
    ELSE IF d < NumDomains THEN Pos("measure", r, d + 1, 1)
    ELSE IF r < NumResolvers THEN Pos("measure", r + 1, 1, 1)
    ELSE Pos("overall", r, d, t)
NextPos(r, d, t) ==
    IF t < num_trials THEN Pos("measure", r, d, t + 1)
    ELSE IF d < NumDomains THEN Pos("measure", r, d + 1, 1)
    ELSE IF r < NumResolvers THEN Pos("measure", r + 1, 1, 1)
    ELSE Pos("overall", r, d, t)

\* The except clause records the failure and the loop goes on.
AfterFailureAbort(r, d, t) == Pos("aborted", r, d, t)
AfterFailure(r, d, t) == NextPos(r, d, t)

Goto(p) ==
    /\ pc' = p.pc
    /\ ri' = p.ri
    /\ di' = p.di
    /\ trial' = p.trial

\* One trial whose lookup returns after `elapsed` time units (lines 57-68).
ResolveOk(elapsed) ==
    /\ pc = "measure"
    /\ LET tbl == Entered(results, ri, di, trial)
       IN  results' = Assign(tbl, ri, Assign(tbl[ri], di, OnSuccess(tbl[ri][di], elapsed)))
    /\ queries' = Append(queries, <<ri, di, trial, Elapsed(elapsed)>>)
    /\ Goto(NextPos(ri, di, trial))
    /\ UNCHANGED report

\* One trial whose lookup raises (lines 57-64, 69-72).
ResolveFail ==
    /\ pc = "measure"
    /\ LET tbl == Entered(results, ri, di, trial)
       IN  results' = Assign(tbl, ri, Assign(tbl[ri], di, OnFailure(tbl[ri][di])))
    /\ queries' = Append(queries, <<ri, di, trial, None>>)
    /\ Goto(AfterFailure(ri, di, trial))
    /\ UNCHANGED report

\* Lines 75-101: the overall statistics of every resolver, and their table.
ComputeOverall ==
    /\ pc = "overall"
    /\ LET ostats == OverallStats(results)
       IN  IF \E r \in resolvers : StatsRaised(ostats[r])
           THEN /\ pc' = "crashed"
                /\ UNCHANGED <<overall_stats, overall_rows>>
           ELSE /\ pc' = "breakdown"
                /\ overall_stats' = ostats
                /\ overall_rows' = [r \in resolvers |-> FormatRow(ostats[r])]
    /\ UNCHANGED <<ri, di, trial, results, queries, breakdown_rows, ranking_stats,
                   sorted_resolvers, ranking_rows, verdict>>

\* Lines 103-117: the per-domain breakdown.
PrintBreakdown ==
    /\ pc = "breakdown"
    /\ breakdown_rows' = Breakdown(results)
    /\ pc' = "rank"
    /\ UNCHANGED <<ri, di, trial, results, queries, overall_stats, overall_rows,
                   ranking_stats, sorted_resolvers, ranking_rows, verdict>>

\* Lines 119-128: the ranking keys and the sorted ranking.
Rank ==
    /\ pc = "rank"
    /\ ranking_stats' = RankingStats(overall_stats)
    /\ sorted_resolvers' = Sorted(Items(RankingStats(overall_stats)))
    /\ pc' = "ranking"
    /\ UNCHANGED <<ri, di, trial, results, queries, overall_stats, overall_rows,
                   breakdown_rows, ranking_rows, verdict>>

\* Lines 130-144: the final ranking table.
PrintRanking ==
    /\ pc = "ranking"
    /\ ranking_rows' = RankingRows(sorted_resolvers, overall_stats)
    /\ pc' = "verdict"
    /\ UNCHANGED <<ri, di, trial, results, queries, overall_stats, overall_rows,
                   breakdown_rows, ranking_stats, sorted_resolvers, verdict>>

\* Lines 146-152: the final verdict.
PrintVerdict ==
    /\ pc = "verdict"
    /\ verdict' = FinalVerdict(sorted_resolvers, overall_stats)
    /\ pc' = "done"
    /\ UNCHANGED <<ri, di, trial, results, queries, overall_stats, overall_rows,
                   breakdown_rows, ranking_stats, sorted_resolvers, ranking_rows>>

Next ==
    \/ \E elapsed \in 0..MaxLatency : ResolveOk(elapsed)
    \/ ResolveFail
    \/ ComputeOverall
    \/ PrintBreakdown
    \/ Rank
    \/ PrintRanking
    \/ PrintVerdict

Spec == Init /\ [][Next]_vars

\* The run as far as its control flow goes: the script never branches on the value
\* of a latency, so one latency stands for all of them and each trial either
\* succeeds or fails.  Every lookup returns or raises within the library's timeout
\* and the script waits for nothing else, so a step that can be taken is taken.
FlowNext ==
    \/ ResolveOk(1)
    \/ ResolveFail
    \/ ComputeOverall
    \/ PrintBreakdown
    \/ Rank
    \/ PrintRanking
    \/ PrintVerdict

FairSpec == Init /\ [][FlowNext]_vars /\ WF_vars(FlowNext)

\* ---- properties ---------------------------------------------------------
Trials == 1..num_trials

\* Every resolver has an entry for every domain, with num_trials samples.
Full(tbl) ==
    /\ DOMAIN tbl = resolvers
    /\ \A r \in resolvers :
        /\ DOMAIN tbl[r] = domains
        /\ \A d \in domains : Len(tbl[r][d]) = num_trials

\* The cells of resolver r that hold a latency of v time units.
CellsWith(tbl, r, v) ==
    {c \in domains \X Trials : tbl[r][c[1]][c[2]] = Elapsed(v)}

HasData(tbl, r) == \E v \in 1..MaxLatency : CellsWith(tbl, r, v) # {}

RECURSIVE PositiveSum(_, _, _)
PositiveSum(tbl, r, v) ==
    IF v = 0 THEN 0
    ELSE v * Cardinality(CellsWith(tbl, r, v)) + PositiveSum(tbl, r, v - 1)

PositiveCount(tbl, r) ==
    Cardinality({c \in domains \X Trials :
                    ~tbl[r][c[1]][c[2]].none /\ tbl[r][c[1]][c[2]].ms > 0})

SomeFailure(tbl) ==
    \E r \in resolvers, d \in domains, t \in Trials : tbl[r][d][t] = None
SomeSuccess(tbl) ==
    \E r \in resolvers, d \in domains, t \in Trials : tbl[r][d][t] # None

\* C1: once the measurement loop has finished, results[resolver][domain] has
\* exactly num_trials samples for every resolver and every domain, whatever the
\* mix of successful and failed lookups.
C1_SampleCount == pc # "measure" => Full(results)

C1_Witness ==
    /\ pc = "overall"
    /\ Full(results)
    /\ SomeFailure(results)
    /\ SomeSuccess(results)

\* The i-th combination of the matrix in lexicographic (resolver, domain, trial) order.
Combination(i) ==
    <<((i - 1) \div (NumDomains * num_trials)) + 1,
      (((i - 1) \div num_trials) % NumDomains) + 1,
      ((i - 1) % num_trials) + 1>>

Covered ==
    \A r \in resolvers, d \in domains, t \in Trials :
        \E i \in DOMAIN queries :
            /\ queries[i][1] = r /\ queries[i][2] = d /\ queries[i][3] = t
            /\ (queries[i][4] = None) <=> (results[r][d][t] = None)

\* C2: a failed lookup records None for its trial only and the run goes on: for
\* every pattern of failures the run eventually completes, having processed every
\* (resolver, domain, trial) combination.
C2_RunCompletes == <>(pc = "done" /\ Covered)

C2_Witness ==
    /\ pc = "done"
    /\ Covered
    /\ results[1][1][1] = None
    /\ results[NumResolvers][NumDomains][num_trials] # None

\* C3: a step that computes any statistic, table row, ranking or verdict is taken
\* only with the results table fully populated, and no step taken after the
\* measurement loop modifies the table.
C3_StatsAfterPopulation ==
    [][/\ report' # report => Full(results)
       /\ pc # "measure" => results' = results]_vars

C3_Witness ==
    /\ overall_stats # <<>>
    /\ breakdown_rows = <<>>
    /\ Full(results)

\* The table with the sample of one cell exchanged: a 0 for None, None for a 0.
Flip(tbl, r, d, t) ==
    [tbl EXCEPT ![r][d][t] = IF @ = None THEN Elapsed(0) ELSE None]

Excluded(x) == x = None \/ x = Elapsed(0)

\* C4: a sample of exactly 0 is excluded from the statistics like a failure
\* marker: exchanging a 0 and a None in any cell leaves the overall statistics,
\* the per-domain rows and the ranking as they are, and only the samples greater
\* than 0 are counted and averaged.
C4_ZeroLikeFailure ==
    pc = "done" =>
        /\ \A r \in resolvers, d \in domains, t \in Trials :
            Excluded(results[r][d][t]) =>
                LET tbl == Flip(results, r, d, t)
                IN  /\ OverallStats(tbl) = overall_stats
                    /\ Breakdown(tbl) = breakdown_rows
                    /\ Sorted(Items(RankingStats(OverallStats(tbl)))) = sorted_resolvers
        /\ \A r \in resolvers :
            /\ overall_stats[r].count = PositiveCount(results, r)
            /\ HasData(results, r) =>
                overall_stats[r].avg =
                    Rat(PositiveSum(results, r, MaxLatency), PositiveCount(results, r))

C4_Witness ==
    /\ pc = "done"
    /\ results[1][1] = <<Elapsed(0), Elapsed(MaxLatency)>>
    /\ results[1][2][1] = None
    /\ results[1][2][2] = Elapsed(1)

IsZero(x) == x.k \in {"rat", "sqrt"} /\ x.n = 0

\* C5: a resolver whose samples are all None or 0 gets nan for its average,
\* minimum, maximum and standard deviation and 0 for its count; none of the four
\* is 0 and the computation raises no error.
C5_NoDataIsNaN ==
    /\ pc # "crashed"
    /\ overall_stats # <<>> =>
        \A r \in resolvers :
            ~HasData(results, r) =>
                /\ overall_stats[r].count = 0
                /\ \A f \in {"avg", "min", "max", "std"} :
                    /\ overall_stats[r][f] = NaN
                    /\ ~IsZero(overall_stats[r][f])

C5_Witness ==
    /\ pc = "breakdown"
    /\ ~HasData(results, 1)
    /\ results[1][1][1] = Elapsed(0)
    /\ HasData(results, 2)

RatLe(a, b) == a.n * b.d <= b.n * a.d

\* C6: the ranking lists every resolver once, the resolvers with valid samples
\* in ascending order of their overall average, and every resolver without a
\* valid sample behind every resolver that has one.
C6_RankingOrder ==
    sorted_resolvers # <<>> =>
        /\ Len(sorted_resolvers) = NumResolvers
        /\ {sorted_resolvers[i][1] : i \in DOMAIN sorted_resolvers} = resolvers
        /\ \A i, j \in DOMAIN sorted_resolvers :
            i < j =>
                LET a == sorted_resolvers[i][1]
                    b == sorted_resolvers[j][1]
                IN  /\ HasData(results, b) => HasData(results, a)
                    /\ HasData(results, b) =>
                        RatLe(overall_stats[a].avg, overall_stats[b].avg)

C6_Witness ==
    /\ pc = "ranking"
    /\ ~HasData(results, 1)
    /\ HasData(results, 2)
    /\ sorted_resolvers[1][1] = 2

\* C7: the ranking is stable: resolvers with equal ranking keys, such as two
\* resolvers without valid data, keep their declaration order.
C7_RankingStable ==
    \A i, j \in DOMAIN sorted_resolvers :
        (i < j /\ sorted_resolvers[i][2] = sorted_resolvers[j][2]) =>
            sorted_resolvers[i][1] < sorted_resolvers[j][1]

C7_Witness ==
    /\ pc = "ranking"
    /\ \A r \in resolvers : ~HasData(results, r)
    /\ \A i \in DOMAIN sorted_resolvers : sorted_resolvers[i] = <<i, Inf>>

\* C8: in the final ranking table a resolver without a valid sample has Avg, Min,
\* Max and StdDev printed as "N/A", and a resolver with a valid sample has them
\* printed as numbers.
C8_RankingRendersNA ==
    \A i \in DOMAIN ranking_rows :
        \A f \in {"avg", "min", "max", "std"} :
            IF HasData(results, ranking_rows[i].resolver)
            THEN ranking_rows[i].row[f].txt = "num"
            ELSE ranking_rows[i].row[f].txt = "N/A"

\* C9: the verdict names a resolver exactly when some resolver has a valid
\* sample; it then names the first-ranked resolver, whose overall average is the
\* least among the resolvers with valid data; otherwise the no-data message is
\* printed and no resolver is named.
C9_Verdict ==
    pc = "done" =>
        /\ verdict.kind = "fastest" <=> \E r \in resolvers : HasData(results, r)
        /\ verdict.kind = "fastest" =>
            /\ verdict.resolver = sorted_resolvers[1][1]
            /\ HasData(results, verdict.resolver)
            /\ verdict.avg = Format2f(overall_stats[verdict.resolver].avg)
            /\ \A r \in resolvers :
                HasData(results, r) =>
                    RatLe(overall_stats[verdict.resolver].avg, overall_stats[r].avg)
        /\ verdict.kind # "fastest" => verdict = NoVerdict

C9_Witness ==
    /\ pc = "done"
    /\ verdict.kind = "fastest"
    /\ verdict.resolver = 2
    /\ HasData(results, 1)

\* C10: the lookups are issued one after another in lexicographic (resolver,
\* domain, trial) order, each combination once, and the k-th sample of
\* results[resolver][domain] is the outcome of trial k of that pair.
C10_QueriesInOrder ==
    /\ Len(queries) <= NumResolvers * NumDomains * num_trials
    /\ pc # "measure" => Len(queries) = NumResolvers * NumDomains * num_trials
    /\ \A i \in DOMAIN queries :
        /\ <<queries[i][1], queries[i][2], queries[i][3]>> = Combination(i)
        /\ results[queries[i][1]][queries[i][2]][queries[i][3]] = queries[i][4]

C10_Witness ==
    /\ pc = "overall"
    /\ results[1][1] = <<None, Elapsed(1)>>
    /\ results[2][1] = <<Elapsed(2), Elapsed(0)>>

====
